---------------------------- MODULE Spec2Model ----------------------------
(***************************************************************************)
(* csvcryptography.py: AES-CTR encryption / decryption of the fields of   *)
(* CSV files, in place.                                                    *)
(*                                                                         *)
(* The model follows the script top to bottom: option parsing, target     *)
(* checks, crawler(), and the main loop with its try/except, preview and  *)
(* commit branches.  One action is one step of the main loop.             *)
(*                                                                         *)
(* Scaling: a byte is two bits wide (0..3, 0 being ASCII NUL), a path is  *)
(* a sequence of names (natural numbers), a password is a small number    *)
(* (0 for None), the keystream of a key is a fixed sequence of bytes.     *)
(* A file on disk is held as the sequence of records csv.reader yields    *)
(* for its bytes; the csv module's treatment of NUL is kept: the Python 2 *)
(* writer copies a field as a C string (up to its first NUL) and the      *)
(* reader raises csv.Error on a line that contains a NUL.                 *)
(***************************************************************************)
EXTENDS Integers, Sequences, FiniteSets, TLC

\* ------------------------------------------------------------ bounds
MaxSize == 6
MaxRunBytes == 2
MaxArgs == 2
MaxRuns == 4
MaxEntries == 5
MaxDepth == 3
MaxName == 2

VARIABLES
    fs,               \* the filesystem: absolute path -> [isdir, rows]
    listrev,          \* os.listdir's (filesystem-defined) order: reversed or not
    cmdline,          \* sys.argv of the running invocation
    options,          \* optparse's values object
    target_columns,   \* list of int
    targets,          \* crawler(paths), the list the main loop iterates
    ti,               \* position of the main loop in targets (1-based)
    enigma,           \* the global AES object
    csv_contents,     \* transformed rows of the current target
    csvfile,          \* the global file handle
    processed_files,  \* counter reported at exit
    pc,               \* where the script is
    fs0,              \* history: the filesystem when the invocation started
    cryptoLog,        \* history: the crypto() calls of the current target
    outcomes,         \* history: how each target visited so far ended
    runs,             \* history: the command lines of the finished invocations
    snaps             \* history: the filesystem before the first and after each invocation

vars == <<fs, listrev, cmdline, options, target_columns, targets, ti, enigma,
          csv_contents, csvfile, processed_files, pc, fs0, cryptoLog,
          outcomes, runs, snaps>>

\* ------------------------------------------------------------ data
\* a byte; 0 is ASCII NUL
Byte == 0..3

SeqsUpTo(S, n) == UNION {[1..k -> S] : k \in 0..n}

RECURSIVE SumLens(_)
SumLens(ss) == IF ss = <<>> THEN 0 ELSE Len(Head(ss)) + SumLens(Tail(ss))

RECURSIVE TotalBytes(_)
TotalBytes(rows) ==
    IF rows = <<>> THEN 0 ELSE SumLens(Head(rows)) + TotalBytes(Tail(rows))

Range(s) == {s[i] : i \in DOMAIN s}

\* bitwise exclusive or of two bytes
Xor(a, b) ==
    (((a % 2) + (b % 2)) % 2) + 2 * ((((a \div 2) % 2) + ((b \div 2) % 2)) % 2)

\* hashlib.md5(password).digest(): a fixed key per password
md5(password) == ((2 * password) + 1) % 8

\* byte i (from 0) of the AES-CTR keystream of a key (iv and counter start at zero)
keystream(key, i) == ((key * (i + 1)) + (i \div 2) + ((i * i) \div 3)) % 4

\* pycryptopp AES.process(): xor with the next len(string) keystream bytes
process(e, string) ==
    [i \in 1..Len(string) |-> Xor(string[i], keystream(e.key, e.pos + i - 1))]

crypto_init(password) == [key |-> md5(password), pos |-> 0]

crypto_restart(e, string) == [out |-> process(e, string), enigma |-> e]

\* crypto(string), with the global enigma made explicit: the result and the
\* AES object after the call (its position moved on by len(string))
crypto(e, string) ==
    [out |-> process(e, string),
     enigma |-> [e EXCEPT !.pos = @ + Len(string)]]

NoEnigma == [key |-> 0 - 1, pos |-> 0]
NoFile == [path |-> <<>>, mode |-> "none", closed |-> TRUE]

\* ------------------------------------------------------------ options
NoColumns == [given |-> FALSE, val |-> <<>>]
Columns(s) == [given |-> TRUE, val |-> s]

parse_args_storing(argv) ==
    [columns |-> argv.c, password |-> argv.password, not_really |-> argv.n]

\* parser.parse_args(): '-c' is declared with action='callback'; optparse then
\* only calls check_columns, which validates the value and stores nothing, so
\* options.columns keeps its default None whatever '-c' was given.
parse_args(argv) ==
    [columns |-> NoColumns, password |-> argv.password, not_really |-> argv.n]

\* the values object before parse_args: every option at its default (None, False)
defaults == [columns |-> NoColumns, password |-> 0, not_really |-> FALSE]

\* truth value of options.columns (None and '' are false)
truthy(columns) == columns.given /\ columns.val # <<>>

\* target_columns after lines 134-137
parse_columns(opts) == IF truthy(opts.columns) THEN opts.columns.val ELSE <<>>

RECURSIVE insert(_, _)
insert(x, s) ==
    IF s = <<>> THEN <<x>>
    ELSE IF x <= Head(s) THEN <<x>> \o s
    ELSE <<Head(s)>> \o insert(x, Tail(s))

RECURSIVE sorted(_)
sorted(s) == IF s = <<>> THEN <<>> ELSE insert(Head(s), sorted(Tail(s)))

\* ------------------------------------------------------------ paths
cwd == <<0>>
abspath(p) == cwd \o p
exists(p) == p \in DOMAIN fs
isdir(p) == p \in DOMAIN fs /\ fs[p].isdir

names(path) == {n \in 0..MaxName : Append(path, n) \in DOMAIN fs}

RECURSIVE ordered(_)
ordered(S) ==
    IF S = {} THEN <<>>
    ELSE LET m == CHOOSE x \in S : \A y \in S : x <= y
         IN <<m>> \o ordered(S \ {m})

reverse(s) == [i \in 1..Len(s) |-> s[Len(s) + 1 - i]]

\* os.listdir(path)
listdir(path) ==
    IF listrev THEN reverse(ordered(names(path))) ELSE ordered(names(path))

subpaths(path) ==
    [i \in 1..Len(listdir(path)) |-> Append(path, listdir(path)[i])]

RECURSIVE crawler_shallow(_)
crawler_shallow(ps) ==
    IF ps = <<>> THEN <<>>
    ELSE LET path == Head(ps)
         IN (IF isdir(path) THEN subpaths(path) ELSE <<path>>)
            \o crawler_shallow(Tail(ps))

\* crawler(paths), lines 154-169
RECURSIVE crawler(_)
crawler(ps) ==
    IF ps = <<>> THEN <<>>
    ELSE LET path == Head(ps)
         IN (IF isdir(path) THEN crawler(subpaths(path)) ELSE <<path>>)
            \o crawler(Tail(ps))

\* ------------------------------------------------------------ csv
\* csv.reader: 'line contains NULL byte'
HasNul(line) == \E i \in DOMAIN line : 0 \in Range(line[i])

RECURSIVE c_string(_)
c_string(s) ==
    IF s = <<>> \/ Head(s) = 0 THEN <<>> ELSE <<Head(s)>> \o c_string(Tail(s))

\* csv.writer.writerow(line), as the record a reader gets back from it
writerow(line) == [i \in 1..Len(line) |-> c_string(line[i])]

csv_write(contents) == [r \in 1..Len(contents) |-> writerow(contents[r])]

\* ------------------------------------------------------------ rows
LogEntry(r, c, e, string) ==
    [row |-> r, col |-> c, pos |-> e.pos, len |-> Len(string)]

\* map(crypto, line), from field c (1-based) on
RECURSIVE map_crypto(_, _, _, _)
map_crypto(e, line, r, c) ==
    IF c > Len(line) THEN [enigma |-> e, out |-> <<>>, log |-> <<>>, err |-> "none"]
    ELSE LET x == crypto(e, line[c])
             rest == map_crypto(x.enigma, line, r, c + 1)
         IN [enigma |-> rest.enigma,
             out |-> <<x.out>> \o rest.out,
             log |-> <<LogEntry(r, c - 1, e, line[c])>> \o rest.log,
             err |-> "none"]

\* for column in cols: newline[column] = crypto(line[column])
RECURSIVE selected_crypto(_, _, _, _, _)
selected_crypto(e, line, newline, cols, r) ==
    IF cols = <<>> THEN [enigma |-> e, out |-> newline, log |-> <<>>, err |-> "none"]
    ELSE LET column == Head(cols)
         IN IF column >= Len(line)
            THEN [enigma |-> e, out |-> newline, log |-> <<>>, err |-> "IndexError"]
            ELSE LET x == crypto(e, line[column + 1])
                     rest == selected_crypto(x.enigma, line,
                                 [newline EXCEPT ![column + 1] = x.out],
                                 Tail(cols), r)
                 IN [rest EXCEPT
                       !.log = <<LogEntry(r, column, e, line[column + 1])>> \o @]

\* the body of the reader loop for one line (lines 181-186)
transform_line(e, line, r, opts, tcols) ==
    IF ~truthy(opts.columns) THEN map_crypto(e, line, r, 1)
    ELSE selected_crypto(e, line, line, sorted(tcols), r)

\* the try block (lines 178-188) from record r of the file on
RECURSIVE read_rows(_, _, _, _, _)
read_rows(e, rows, r, opts, tcols) ==
    IF r > Len(rows)
    THEN [enigma |-> e, contents |-> <<>>, log |-> <<>>, err |-> "none"]
    ELSE IF HasNul(rows[r])
    THEN [enigma |-> e, contents |-> <<>>, log |-> <<>>, err |-> "csv.Error"]
    ELSE LET t == transform_line(e, rows[r], r, opts, tcols)
         IN IF t.err # "none"
            THEN [enigma |-> t.enigma, contents |-> <<>>, log |-> t.log, err |-> t.err]
            ELSE LET rest == read_rows(t.enigma, rows, r + 1, opts, tcols)
                 IN [enigma |-> rest.enigma,
                     contents |-> <<t.out>> \o rest.contents,
                     log |-> t.log \o rest.log,
                     err |-> rest.err]

\* ------------------------------------------------------------ main loop
\* the record kept of a visited target
Outcome(target, status, before, after) ==
    [target |-> target, status |-> status, before |-> before, after |-> after]

csv_error_handler_abort(target, i) ==
    [csvfile |-> [path |-> target, mode |-> "rb", closed |-> TRUE],
     ti |-> i, pc |-> "crashed"]

\* except csv.Error: report, csvfile.close(), continue (lines 189-193)
csv_error_handler(target, i) ==
    [csvfile |-> [path |-> target, mode |-> "rb", closed |-> TRUE],
     ti |-> i + 1, pc |-> "loop"]

dry_run_never(opts) == FALSE

\* if options.not_really (line 194)
dry_run(opts) == opts.not_really

\* what an invocation that is over leaves in the history
Ended(disk) ==
    /\ runs' = Append(runs, cmdline)
    /\ snaps' = Append(snaps, disk)

\* lines 120-169: parse the command line, check the targets, unroll them
Start ==
    /\ pc = "start"
    /\ options' = parse_args(cmdline)
    /\ IF cmdline.args = <<>>
          \/ \E i \in DOMAIN cmdline.args : ~exists(abspath(cmdline.args[i]))
       THEN /\ pc' = "syntax_error"
            /\ Ended(fs)
            /\ UNCHANGED <<target_columns, targets>>
       ELSE /\ pc' = "loop"
            /\ target_columns' = parse_columns(options')
            /\ targets' = crawler([i \in DOMAIN cmdline.args |->
                                      abspath(cmdline.args[i])])
            /\ UNCHANGED <<runs, snaps>>
    /\ UNCHANGED <<fs, listrev, cmdline, ti, enigma, csv_contents, csvfile,
                   processed_files, fs0, cryptoLog, outcomes>>

\* lines 173-193: a fresh AES object, then the try block on the next target
ProcessRead ==
    /\ pc = "loop"
    /\ ti <= Len(targets)
    /\ LET target == targets[ti]
           rows == fs[target].rows
           res == read_rows(crypto_init(options.password), rows, 1,
                            options, target_columns)
           skip == csv_error_handler(target, ti)
       IN /\ enigma' = res.enigma
          /\ cryptoLog' = res.log
          /\ csv_contents' = res.contents
          /\ CASE res.err = "none" ->
                    /\ csvfile' = [path |-> target, mode |-> "rb", closed |-> TRUE]
                    /\ pc' = "parsed"
                    /\ UNCHANGED <<ti, outcomes, runs, snaps>>
               [] res.err = "csv.Error" ->
                    /\ csvfile' = skip.csvfile
                    /\ ti' = skip.ti
                    /\ pc' = skip.pc
                    /\ outcomes' = Append(outcomes,
                                     Outcome(target, "skipped", rows, rows))
                    /\ IF skip.pc = "crashed" THEN Ended(fs)
                       ELSE UNCHANGED <<runs, snaps>>
               [] OTHER ->
                    \* IndexError is no csv.Error: the script dies with a traceback
                    /\ csvfile' = [path |-> target, mode |-> "rb", closed |-> FALSE]
                    /\ pc' = "crashed"
                    /\ outcomes' = Append(outcomes,
                                     Outcome(target, "crashed", rows, rows))
                    /\ Ended(fs)
                    /\ UNCHANGED ti
    /\ UNCHANGED <<fs, listrev, cmdline, options, target_columns, targets,
                   processed_files, fs0>>

\* lines 194-198: print everything, change nothing
Preview ==
    /\ pc = "parsed"
    /\ dry_run(options)
    /\ outcomes' = Append(outcomes,
                     Outcome(targets[ti], "previewed", fs[targets[ti]].rows,
                             csv_contents))
    /\ ti' = ti + 1
    /\ pc' = "loop"
    /\ UNCHANGED <<fs, listrev, cmdline, options, target_columns, targets,
                   enigma, csv_contents, csvfile, processed_files, fs0,
                   cryptoLog, runs, snaps>>

\* lines 199-206: rewrite the source file
Commit ==
    /\ pc = "parsed"
    /\ ~dry_run(options)
    /\ fs' = [fs EXCEPT ![targets[ti]].rows = csv_write(csv_contents)]
    /\ csvfile' = [path |-> targets[ti], mode |-> "wb", closed |-> TRUE]
    /\ processed_files' = processed_files + 1
    /\ outcomes' = Append(outcomes,
                     Outcome(targets[ti], "committed", fs[targets[ti]].rows,
                             fs'[targets[ti]].rows))
    /\ ti' = ti + 1
    /\ pc' = "loop"
    /\ UNCHANGED <<listrev, cmdline, options, target_columns, targets, enigma,
                   csv_contents, fs0, cryptoLog, runs, snaps>>

\* lines 207-212: the summary line, sys.exit()
Finish ==
    /\ pc = "loop"
    /\ ti > Len(targets)
    /\ pc' = "exit"
    /\ Ended(fs)
    /\ UNCHANGED <<fs, listrev, cmdline, options, target_columns, targets, ti,
                   enigma, csv_contents, csvfile, processed_files, fs0,
                   cryptoLog, outcomes>>

\* ------------------------------------------------------------ inputs
Passwords == {1, 2}

ColumnArgs ==
    {NoColumns} \cup
    {Columns(s) : s \in {<<0>>, <<1>>, <<0, 1>>, <<1, 0>>, <<1, 1>>, <<2>>}}

\* the records whose fields and bytes number s together
RECURSIVE LinesOfSize(_)
LinesOfSize(s) ==
    IF s = 0 THEN {<<>>}
    ELSE UNION {{<<f>> \o l : f \in [1..k -> Byte], l \in LinesOfSize(s - 1 - k)} :
                k \in 0..(s - 1)}

\* the files whose records, fields and bytes number s together
RECURSIVE FilesOfSize(_)
FilesOfSize(s) ==
    IF s = 0 THEN {<<>>}
    ELSE UNION {{<<l>> \o f : l \in LinesOfSize(k), f \in FilesOfSize(s - 1 - k)} :
                k \in 0..(s - 1)}

Contents == UNION {FilesOfSize(s) : s \in 0..MaxSize}

File(rows) == [isdir |-> FALSE, rows |-> rows]
Dir == [isdir |-> TRUE, rows |-> <<>>]

\* ./1 is a file, ./2 a directory holding the file ./2/1
Layout(rows1, rows21) ==
    (cwd :> Dir) @@ (<<0, 1>> :> File(rows1)) @@ (<<0, 2>> :> Dir)
    @@ (<<0, 2, 1>> :> File(rows21))

BatchFiles ==
    { <<>>,
      << <<<<2>>, <<1>>>> >>,
      << <<<<3>>>> >>,
      << <<<<1>>>>, <<<<0>>>> >> }

ArgPaths == {<<1>>, <<2>>, <<2, 1>>, <<3>>}
ArgLists == SeqsUpTo(ArgPaths, MaxArgs)

Cmdline(c, password, n, args) ==
    [c |-> c, password |-> password, n |-> n, args |-> args]

\* the state before the first statement of an invocation
Fresh(disk, argv) ==
    /\ fs = disk
    /\ listrev = FALSE
    /\ cmdline = argv
    /\ options = defaults
    /\ target_columns = <<>>
    /\ targets = <<>>
    /\ ti = 1
    /\ enigma = NoEnigma
    /\ csv_contents = <<>>
    /\ csvfile = NoFile
    /\ processed_files = 0
    /\ pc = "start"
    /\ fs0 = disk
    /\ cryptoLog = <<>>
    /\ outcomes = <<>>
    /\ runs = <<>>
    /\ snaps = <<disk>>

\* one file of any contents, processed alone
InitFile ==
    \E rows \in Contents, c \in ColumnArgs, n \in BOOLEAN :
        Fresh(Layout(rows, << <<<<1>>>> >>), Cmdline(c, 1, n, << <<1>> >>))

\* any list of targets over a few files
InitBatch ==
    \E r1 \in BatchFiles, r2 \in BatchFiles, c \in ColumnArgs,
       p \in Passwords, n \in BOOLEAN, args \in ArgLists :
        Fresh(Layout(r1, r2), Cmdline(c, p, n, args))

Init == InitFile \/ InitBatch

Next == Start \/ ProcessRead \/ Preview \/ Commit \/ Finish

Spec == Init /\ [][Next]_vars

\* ------------------------------------------------------------ several invocations
\* the same file handed to the script again and again
RunFiles ==
    {f \in Contents : /\ f # <<>>
                      /\ \A r \in DOMAIN f : Len(f[r]) = 2
                      /\ TotalBytes(f) <= MaxRunBytes}

RunCmdlines ==
    { Cmdline(Columns(<<0>>), 1, FALSE, << <<1>> >>),
      Cmdline(Columns(<<1>>), 2, FALSE, << <<1>> >>),
      Cmdline(NoColumns, 1, FALSE, << <<1>> >>),
      Cmdline(NoColumns, 2, TRUE, << <<1>> >>) }

InitRuns ==
    \E rows \in RunFiles, argv \in RunCmdlines :
        Fresh(Layout(rows, << <<<<1>>>> >>), argv)

\* the script is started again on the filesystem the last invocation left
Invoke ==
    /\ pc \in {"exit", "syntax_error", "crashed"}
    /\ Len(runs) < MaxRuns
    /\ \E argv \in RunCmdlines :
          /\ cmdline' = argv
          /\ options' = defaults
    /\ target_columns' = <<>>
    /\ targets' = <<>>
    /\ ti' = 1
    /\ enigma' = NoEnigma
    /\ csv_contents' = <<>>
    /\ csvfile' = NoFile
    /\ processed_files' = 0
    /\ pc' = "start"
    /\ fs0' = fs
    /\ cryptoLog' = <<>>
    /\ outcomes' = <<>>
    /\ UNCHANGED <<fs, listrev, runs, snaps>>

NextRuns == Start \/ ProcessRead \/ Preview \/ Commit \/ Finish \/ Invoke

SpecRuns == InitRuns /\ [][NextRuns]_vars

\* ------------------------------------------------------------ directory trees
\* a tree is grown under the working directory, then crawler() is applied to it
InitCrawl ==
    /\ fs = (cwd :> Dir)
    /\ listrev \in BOOLEAN
    /\ cmdline = Cmdline(NoColumns, 1, FALSE, << <<>> >>)
    /\ options = defaults
    /\ target_columns = <<>>
    /\ targets = <<>>
    /\ ti = 1
    /\ enigma = NoEnigma
    /\ csv_contents = <<>>
    /\ csvfile = NoFile
    /\ processed_files = 0
    /\ pc = "mkfs"
    /\ fs0 = fs
    /\ cryptoLog = <<>>
    /\ outcomes = <<>>
    /\ runs = <<>>
    /\ snaps = <<fs>>

\* the places where the tree can still grow
Vacant ==
    IF Cardinality(DOMAIN fs) > MaxEntries THEN {}
    ELSE {Append(d, n) : d \in {x \in DOMAIN fs : fs[x].isdir /\ Len(x) <= MaxDepth},
                          n \in 1..MaxName} \ DOMAIN fs

Mkdir ==
    /\ pc = "mkfs"
    /\ \E p \in Vacant : fs' = fs @@ (p :> Dir)
    /\ UNCHANGED <<listrev, cmdline, options, target_columns, targets, ti,
                   enigma, csv_contents, csvfile, processed_files, pc, fs0,
                   cryptoLog, outcomes, runs, snaps>>

Touch ==
    /\ pc = "mkfs"
    /\ \E p \in Vacant : fs' = fs @@ (p :> File(<<>>))
    /\ UNCHANGED <<listrev, cmdline, options, target_columns, targets, ti,
                   enigma, csv_contents, csvfile, processed_files, pc, fs0,
                   cryptoLog, outcomes, runs, snaps>>

CrawlRoot ==
    /\ pc = "mkfs"
    /\ targets' = crawler(<<cwd>>)
    /\ pc' = "crawled"
    /\ UNCHANGED <<fs, listrev, cmdline, options, target_columns, ti, enigma,
                   csv_contents, csvfile, processed_files, fs0, cryptoLog,
                   outcomes, runs, snaps>>

NextCrawl == Mkdir \/ Touch \/ CrawlRoot

SpecCrawl == InitCrawl /\ [][NextCrawl]_vars

\* ------------------------------------------------------------ properties
Parseable(rows) == \A r \in DOMAIN rows : ~HasNul(rows[r])

\* every selected index is a field position of every row
Wide(c, rows) ==
    \A r \in DOMAIN rows : \A k \in Range(c.val) : k < Len(rows[r])

SameShape(a, b) ==
    /\ Len(a) = Len(b)
    /\ \A r \in DOMAIN a : Len(a[r]) = Len(b[r])

TheFile == <<0, 1>>

Column(rows, k) == [r \in DOMAIN rows |-> rows[r][k + 1]]

\* C1: running the script twice in commit mode with the same password and the
\* same column selection on a parseable file whose rows are wide enough for the
\* selection leaves the file with its original rows.
C1_Involution ==
    \A i \in DOMAIN runs :
        ( /\ i + 1 \in DOMAIN runs
          /\ runs[i] = runs[i + 1]
          /\ ~runs[i].n
          /\ Parseable(snaps[i][TheFile].rows)
          /\ Wide(runs[i].c, snaps[i][TheFile].rows) )
        => snaps[i + 2][TheFile].rows = snaps[i][TheFile].rows

\* C2: with a non-empty column selection, a row written to a file differs from
\* the row read only in the selected fields, and has as many fields.
C2_ColumnSelectivity ==
    \A i \in DOMAIN outcomes :
        (outcomes[i].status = "committed" /\ truthy(cmdline.c))
        => /\ SameShape(outcomes[i].before, outcomes[i].after)
           /\ \A r \in DOMAIN outcomes[i].before :
                \A k \in DOMAIN outcomes[i].before[r] :
                    (k - 1) \notin Range(cmdline.c.val)
                    => outcomes[i].after[r][k] = outcomes[i].before[r][k]

Run0P1 == Cmdline(Columns(<<0>>), 1, FALSE, << <<1>> >>)
Run1P2 == Cmdline(Columns(<<1>>), 2, FALSE, << <<1>> >>)

\* C3: after -c 0 with P1, -c 1 with P2 and -c 0 with P1 again, column 0 is the
\* original one and column 1 is as the second run left it; a fourth run, -c 1
\* with P2, gives the original file back.
C3_ColumnIndependence ==
    ( /\ Len(runs) >= 3
      /\ runs[1] = Run0P1 /\ runs[2] = Run1P2 /\ runs[3] = Run0P1
      /\ Parseable(snaps[1][TheFile].rows) )
    => /\ SameShape(snaps[4][TheFile].rows, snaps[1][TheFile].rows)
       /\ Column(snaps[4][TheFile].rows, 0) = Column(snaps[1][TheFile].rows, 0)
       /\ Column(snaps[4][TheFile].rows, 1) = Column(snaps[3][TheFile].rows, 1)
       /\ (Len(runs) >= 4 /\ runs[4] = Run1P2)
          => snaps[5][TheFile].rows = snaps[1][TheFile].rows

\* C4: under -n no file on disk changes in any state of the run, nothing is
\* opened for writing and nothing is counted as altered.
C4_DryRunNonMutation ==
    cmdline.n => (fs = fs0 /\ csvfile.mode # "wb" /\ processed_files = 0)

C4_Witness ==
    /\ cmdline.n
    /\ pc = "exit"
    /\ \E i \in DOMAIN outcomes : outcomes[i].status = "skipped"
    /\ \E i \in DOMAIN outcomes :
          /\ outcomes[i].status = "previewed"
          /\ outcomes[i].after # outcomes[i].before

OutOfRange(c, rows) == truthy(c) /\ ~Wide(c, rows)

\* C5: a file with a row too short for a selected column is skipped, unchanged
\* and uncounted, and the run goes on with the targets after it.
C5_OutOfRangeRecoverable ==
    /\ pc # "crashed"
    /\ \A i \in DOMAIN outcomes :
          OutOfRange(cmdline.c, outcomes[i].before)
          => /\ outcomes[i].status = "skipped"
             /\ outcomes[i].after = outcomes[i].before

ReaderFails == pc = "loop" /\ ti <= Len(targets) /\ ~Parseable(fs[targets[ti]].rows)

\* C6: when the reader fails on a target, the step that handles it changes no
\* file, leaves the counter alone, closes the read handle and moves the loop
\* to the next target; the run ends having visited every target in crawl order.
C6_ParseFailureRecoverable ==
    /\ [][ReaderFails => /\ fs' = fs
                         /\ processed_files' = processed_files
                         /\ csvfile' = [path |-> targets[ti], mode |-> "rb",
                                        closed |-> TRUE]
                         /\ pc' = "loop"
                         /\ ti' = ti + 1]_vars
    /\ [](pc # "crashed")
    /\ [](pc = "exit" => /\ Len(outcomes) = Len(targets)
                         /\ \A i \in DOMAIN outcomes :
                               outcomes[i].target = targets[i])

C6_Witness ==
    /\ pc = "exit"
    /\ \E i \in DOMAIN outcomes, j \in DOMAIN outcomes :
          /\ i < j
          /\ outcomes[i].status = "skipped"
          /\ outcomes[j].status = "committed"
          /\ outcomes[j].after # outcomes[j].before
    /\ processed_files = 1

RegularFiles == {p \in DOMAIN fs : ~fs[p].isdir}

\* C7: crawler on the root of a tree returns the tree's regular files, each
\* once, and no directory.
C7_CrawlCompleteness ==
    pc = "crawled"
    => /\ Range(targets) = RegularFiles
       /\ Len(targets) = Cardinality(RegularFiles)

C7_Witness ==
    /\ pc = "crawled"
    /\ Cardinality(RegularFiles) >= 2
    /\ \E p \in RegularFiles : Len(p) = MaxDepth + 1
    /\ \E p \in RegularFiles : Len(p) = 2
    /\ \E d \in DOMAIN fs : fs[d].isdir /\ names(d) = {}

RECURSIVE LensBefore(_, _)
LensBefore(log, k) == IF k <= 1 THEN 0 ELSE log[k - 1].len + LensBefore(log, k - 1)

RECURSIVE Picked(_, _, _)
Picked(rows, log, k) ==
    IF k > Len(log) THEN <<>>
    ELSE rows[log[k].row][log[k].col + 1] \o Picked(rows, log, k + 1)

\* C8: each transformed field starts at the keystream position that is the
\* number of bytes transformed before it in the same file, from zero in every
\* file; the transformed fields are one continuous stream over their bytes.
C8_StreamAlignment ==
    /\ \A k \in DOMAIN cryptoLog : cryptoLog[k].pos = LensBefore(cryptoLog, k)
    /\ pc = "parsed"
       => Picked(csv_contents, cryptoLog, 1)
          = process(crypto_init(cmdline.password),
                    Picked(fs[targets[ti]].rows, cryptoLog, 1))

C8_Witness ==
    /\ pc = "parsed"
    /\ \E i \in DOMAIN outcomes : outcomes[i].status = "committed"
                                  /\ outcomes[i].before # <<>>
    /\ Len(cryptoLog) >= 2
    /\ cryptoLog[2].pos > 0

\* the rows the script computes from the current target under another -c value
RowsUnder(c) ==
    LET argv == [cmdline EXCEPT !.c = c]
    IN read_rows(crypto_init(argv.password), fs[targets[ti]].rows, 1,
                 parse_args(argv), parse_columns(parse_args(argv))).contents

Calls(r, k) == {j \in DOMAIN cryptoLog : cryptoLog[j].row = r /\ cryptoLog[j].col = k}

C10_NoFileTwice ==
    /\ \A i \in DOMAIN targets, j \in DOMAIN targets :
          i # j => targets[i] # targets[j]
    /\ \A i \in DOMAIN outcomes, j \in DOMAIN outcomes :
          i # j => outcomes[i].target # outcomes[j].target

=============================================================================
